---- MODULE Spec2Model ----
(***************************************************************************)
(* Model of HMASynthesiser/authenticity_checker.py: the run of main() over *)
(* a real and a synthetic collection of tables, through the numeric        *)
(* comparator, the categorical comparator, the referential integrity       *)
(* check, the business validation and the report.                          *)
(*                                                                         *)
(* A table (a pandas DataFrame) is a record [nrows, cols]; cols maps a     *)
(* column name to [dtype, cells]; a cell is <<>> (a missing value, NaN) or *)
(* <<v>> (the value v).  A collection is a function from the names of the  *)
(* tables it holds to tables (a Python dict).  Floating point values are   *)
(* exact rationals [k |-> "num", n, d] in lowest terms, or the IEEE        *)
(* specials [k |-> "nan"] and [k |-> "inf"].                               *)
(***************************************************************************)
EXTENDS Integers, Sequences, FiniteSets, TLC

VARIABLES pc, error, real_data, synthetic_data, translation_dict,
          comparison_results, categorical_results, integrity_results,
          validation_results, avg_stat_score, avg_cat_score,
          avg_integrity_score, overall_score, tier

vars == <<pc, error, real_data, synthetic_data, translation_dict,
          comparison_results, categorical_results, integrity_results,
          validation_results, avg_stat_score, avg_cat_score,
          avg_integrity_score, overall_score, tier>>

(***************************************************************************)
(* Bounds of the model.                                                    *)
(***************************************************************************)
\* cell values are 0..MaxVal (numbers in a numeric column, labels in a text column)
MaxVal == 1

\* a collection of one or two columns has tables of at most MaxRows rows
MaxRows == 2

Vals == 0 .. MaxVal

NaN == <<>>

Cells == {NaN} \cup {<<v>> : v \in Vals}

(***************************************************************************)
(* Exact arithmetic for the Python floats.                                 *)
(***************************************************************************)
Abs(x) == IF x < 0 THEN -x ELSE x

RECURSIVE GCD(_, _)
GCD(a, b) == IF b = 0 THEN a ELSE GCD(b, a % b)

\* the rational n/d (d # 0) in lowest terms with a positive denominator
Frac(n, d) ==
    LET g == GCD(Abs(n), Abs(d))
        s == IF d < 0 THEN -1 ELSE 1
    IN  [k |-> "num", n |-> (s * n) \div g, d |-> (s * d) \div g]

FNaN == [k |-> "nan"]

FInf == [k |-> "inf"]

IsNum(x) == x.k = "num"

FAdd(x, y) == Frac(x.n * y.d + y.n * x.d, x.d * y.d)

FSub(x, y) == Frac(x.n * y.d - y.n * x.d, x.d * y.d)

FMul(x, y) == Frac(x.n * y.n, x.d * y.d)

FAbs(x) == Frac(Abs(x.n), x.d)

FLe(x, y) == x.n * y.d <= y.n * x.d

FLt(x, y) == x.n * y.d < y.n * x.d

\* x / y as numpy float64 divides: a zero divisor gives nan or inf, no exception
FDivNumpy(x, y) ==
    IF ~IsNum(x) \/ ~IsNum(y) THEN FNaN
    ELSE IF y.n = 0 THEN (IF x.n = 0 THEN FNaN ELSE FInf)
    ELSE Frac(x.n * y.d, x.d * y.n)

RECURSIVE SumSeq(_)
SumSeq(s) == IF s = <<>> THEN 0 ELSE Head(s) + SumSeq(Tail(s))

RECURSIVE FSumSeq(_)
FSumSeq(s) == IF s = <<>> THEN Frac(0, 1) ELSE FAdd(Head(s), FSumSeq(Tail(s)))

\* np.mean of a non-empty list of floats
NpMean(s) == FMul(FSumSeq(s), Frac(1, Len(s)))

(***************************************************************************)
(* pandas Series operations used by the comparators.                       *)
(***************************************************************************)
RECURSIVE dropna(_)
dropna(cells) ==
    IF cells = <<>> THEN <<>>
    ELSE IF Head(cells) = NaN THEN dropna(Tail(cells))
    ELSE <<Head(cells)[1]>> \o dropna(Tail(cells))

\* set(series.dropna()) and set(series.value_counts().index): the distinct non-null values
Distinct(cells) == {cells[i][1] : i \in {j \in 1 .. Len(cells) : cells[j] # NaN}}

\* Series.mean(): the mean of the non-null values, NaN when there is none
SeriesMean(cells) ==
    LET xs == dropna(cells)
    IN  IF xs = <<>> THEN FNaN ELSE Frac(SumSeq(xs), Len(xs))

\* the square of Series.std() (sample standard deviation, ddof = 1): NaN under two values
SeriesVar(cells) ==
    LET xs == dropna(cells)
        n  == Len(xs)
        sq == [i \in 1 .. n |-> xs[i] * xs[i]]
    IN  IF n < 2 THEN FNaN
        ELSE Frac(n * SumSeq(sq) - SumSeq(xs) * SumSeq(xs), n * (n - 1))

(***************************************************************************)
(* Tables and collections.                                                 *)
(***************************************************************************)
\* the dtype pandas gives each column of the data set (select_dtypes reads it)
Dtype(col) == IF col \in {"payment_value", "price"} THEN "number" ELSE "object"

MkTable(n, cellsOf) ==
    [nrows |-> n,
     cols  |-> [c \in DOMAIN cellsOf |-> [dtype |-> Dtype(c), cells |-> cellsOf[c]]]]

\* every table with the columns cols and a number of rows in rowCounts
TablesOver(cols, rowCounts) ==
    UNION {{MkTable(n, f) : f \in [cols -> [1 .. n -> Cells]]} : n \in rowCounts}

Columns(df) == DOMAIN df.cols

\* df.select_dtypes(include=[dtype]).columns
select_dtypes(df, dtype) == {c \in Columns(df) : df.cols[c].dtype = dtype}

EmptyDict == <<>>

\* the collection holding table df under the name t, and nothing else
OneTable(t, df) == [x \in {t} |-> df]

(***************************************************************************)
(* Numeric comparator.                                                     *)
(***************************************************************************)
\* the number of sample values <= x
CountLE(xs, x) == Cardinality({i \in 1 .. Len(xs) : xs[i] <= x})

\* ks_stat without the absolute value: the one-sided statistic
ks_stat_one_sided(a, b) ==
    LET pts  == {a[i] : i \in 1 .. Len(a)} \cup {b[i] : i \in 1 .. Len(b)}
        diff == {CountLE(a, x) * Len(b) - CountLE(b, x) * Len(a) : x \in pts}
        top  == CHOOSE m \in diff : \A y \in diff : y <= m
    IN  Frac(top, Len(a) * Len(b))

\* scipy.stats.ks_2samp(a, b).statistic for non-empty samples: the largest
\* absolute difference of the two empirical distribution functions
ks_stat(a, b) ==
    LET pts  == {a[i] : i \in 1 .. Len(a)} \cup {b[i] : i \in 1 .. Len(b)}
        diff == {Abs(CountLE(a, x) * Len(b) - CountLE(b, x) * Len(a)) : x \in pts}
        top  == CHOOSE m \in diff : \A y \in diff : y <= m
    IN  Frac(top, Len(a) * Len(b))

\* lines 229-235: 1 - ks_stat; ks_2samp raises on an empty sample and the
\* except branch sets the neutral 0.5
similarity_of(real_cells, syn_cells) ==
    LET a == dropna(real_cells)
        b == dropna(syn_cells)
    IN  IF a = <<>> \/ b = <<>> THEN Frac(1, 2)
        ELSE FSub(Frac(1, 1), ks_stat(a, b))

\* line 221: abs(real mean - synthetic mean) / real mean * 100
mean_diff_of(real_cells, syn_cells) ==
    LET rm == SeriesMean(real_cells)
        sm == SeriesMean(syn_cells)
    IN  IF ~IsNum(rm) \/ ~IsNum(sm) THEN FNaN
        ELSE LET q == FDivNumpy(FAbs(FSub(rm, sm)), rm)
             IN  IF IsNum(q) THEN FMul(q, Frac(100, 1)) ELSE q

\* line 222: abs(real std - synthetic std) / real std * 100.  With the
\* variances rv, sv the finite value is 100 * |1 - sqrt(sv / rv)|, kept as
\* [k |-> "relsqrt", q |-> sv / rv]: it is 0 exactly when q = 1.
std_diff_of(real_cells, syn_cells) ==
    LET rv == SeriesVar(real_cells)
        sv == SeriesVar(syn_cells)
    IN  IF ~IsNum(rv) \/ ~IsNum(sv) THEN FNaN
        ELSE IF rv.n = 0 THEN (IF sv.n = 0 THEN FNaN ELSE FInf)
        ELSE [k |-> "relsqrt", q |-> FDivNumpy(sv, rv)]

\* lines 237-241: the entry of one numeric column
StatColumn(real_cells, syn_cells) ==
    [mean_diff        |-> mean_diff_of(real_cells, syn_cells),
     std_diff         |-> std_diff_of(real_cells, syn_cells),
     similarity_score |-> similarity_of(real_cells, syn_cells)]

\* lines 191-243: the tables of both collections, the numeric columns of the
\* real table that the synthetic table has too
StatResults(real, syn) ==
    [t \in DOMAIN real \cap DOMAIN syn |->
        [c \in select_dtypes(real[t], "number") \cap Columns(syn[t]) |->
            StatColumn(real[t].cols[c].cells, syn[t].cols[c].cells)]]

(***************************************************************************)
(* Categorical comparator.                                                 *)
(***************************************************************************)
\* lines 18-25
EXCLUDE_FROM_CATEGORICAL_SCORING ==
    {"order_id", "customer_id", "product_id", "seller_id", "review_id",
     "order_purchase_timestamp", "order_approved_at", "order_delivered_carrier_date",
     "order_delivered_customer_date", "order_estimated_delivery_date",
     "shipping_limit_date", "review_creation_date", "review_answer_timestamp",
     "customer_unique_id", "customer_city", "customer_state", "seller_city",
     "seller_state", "seller_zip_code_prefix", "customer_zip_code_prefix",
     "geolocation_zip_code_prefix"}

\* the characters of the column names of the model (all lower case, as the
\* names of the data set and of the exclusion set are: col.lower() leaves them
\* as they are) and of the terms the code looks for in them
Chars(s) ==
    CASE s = "order_id" ->
            <<"o", "r", "d", "e", "r", "_", "i", "d">>
      [] s = "customer_id" ->
            <<"c", "u", "s", "t", "o", "m", "e", "r", "_", "i", "d">>
      [] s = "product_id" ->
            <<"p", "r", "o", "d", "u", "c", "t", "_", "i", "d">>
      [] s = "seller_id" ->
            <<"s", "e", "l", "l", "e", "r", "_", "i", "d">>
      [] s = "review_id" ->
            <<"r", "e", "v", "i", "e", "w", "_", "i", "d">>
      [] s = "order_purchase_timestamp" ->
            <<"o", "r", "d", "e", "r", "_", "p", "u", "r", "c", "h", "a", "s", "e", "_", "t", "i", "m", "e", "s", "t", "a", "m", "p">>
      [] s = "order_approved_at" ->
            <<"o", "r", "d", "e", "r", "_", "a", "p", "p", "r", "o", "v", "e", "d", "_", "a", "t">>
      [] s = "order_delivered_carrier_date" ->
            <<"o", "r", "d", "e", "r", "_", "d", "e", "l", "i", "v", "e", "r", "e", "d", "_", "c", "a", "r", "r", "i", "e", "r", "_", "d", "a", "t", "e">>
      [] s = "order_delivered_customer_date" ->
            <<"o", "r", "d", "e", "r", "_", "d", "e", "l", "i", "v", "e", "r", "e", "d", "_", "c", "u", "s", "t", "o", "m", "e", "r", "_", "d", "a", "t", "e">>
      [] s = "order_estimated_delivery_date" ->
            <<"o", "r", "d", "e", "r", "_", "e", "s", "t", "i", "m", "a", "t", "e", "d", "_", "d", "e", "l", "i", "v", "e", "r", "y", "_", "d", "a", "t", "e">>
      [] s = "shipping_limit_date" ->
            <<"s", "h", "i", "p", "p", "i", "n", "g", "_", "l", "i", "m", "i", "t", "_", "d", "a", "t", "e">>
      [] s = "review_creation_date" ->
            <<"r", "e", "v", "i", "e", "w", "_", "c", "r", "e", "a", "t", "i", "o", "n", "_", "d", "a", "t", "e">>
      [] s = "review_answer_timestamp" ->
            <<"r", "e", "v", "i", "e", "w", "_", "a", "n", "s", "w", "e", "r", "_", "t", "i", "m", "e", "s", "t", "a", "m", "p">>
      [] s = "customer_unique_id" ->
            <<"c", "u", "s", "t", "o", "m", "e", "r", "_", "u", "n", "i", "q", "u", "e", "_", "i", "d">>
      [] s = "customer_city" ->
            <<"c", "u", "s", "t", "o", "m", "e", "r", "_", "c", "i", "t", "y">>
      [] s = "customer_state" ->
            <<"c", "u", "s", "t", "o", "m", "e", "r", "_", "s", "t", "a", "t", "e">>
      [] s = "seller_city" ->
            <<"s", "e", "l", "l", "e", "r", "_", "c", "i", "t", "y">>
      [] s = "seller_state" ->
            <<"s", "e", "l", "l", "e", "r", "_", "s", "t", "a", "t", "e">>
      [] s = "seller_zip_code_prefix" ->
            <<"s", "e", "l", "l", "e", "r", "_", "z", "i", "p", "_", "c", "o", "d", "e", "_", "p", "r", "e", "f", "i", "x">>
      [] s = "customer_zip_code_prefix" ->
            <<"c", "u", "s", "t", "o", "m", "e", "r", "_", "z", "i", "p", "_", "c", "o", "d", "e", "_", "p", "r", "e", "f", "i", "x">>
      [] s = "geolocation_zip_code_prefix" ->
            <<"g", "e", "o", "l", "o", "c", "a", "t", "i", "o", "n", "_", "z", "i", "p", "_", "c", "o", "d", "e", "_", "p", "r", "e", "f", "i", "x">>
      [] s = "order_status" ->
            <<"o", "r", "d", "e", "r", "_", "s", "t", "a", "t", "u", "s">>
      [] s = "payment_value" ->
            <<"p", "a", "y", "m", "e", "n", "t", "_", "v", "a", "l", "u", "e">>
      [] s = "payment_type" ->
            <<"p", "a", "y", "m", "e", "n", "t", "_", "t", "y", "p", "e">>
      [] s = "price" ->
            <<"p", "r", "i", "c", "e">>
      [] s = "product_category_name" ->
            <<"p", "r", "o", "d", "u", "c", "t", "_", "c", "a", "t", "e", "g", "o", "r", "y", "_", "n", "a", "m", "e">>
      [] s = "order_item_id" ->
            <<"o", "r", "d", "e", "r", "_", "i", "t", "e", "m", "_", "i", "d">>
      [] s = "geolocation_city" ->
            <<"g", "e", "o", "l", "o", "c", "a", "t", "i", "o", "n", "_", "c", "i", "t", "y">>
      [] s = "id" ->
            <<"i", "d">>
      [] s = "unique" ->
            <<"u", "n", "i", "q", "u", "e">>
      [] s = "date" ->
            <<"d", "a", "t", "e">>
      [] s = "timestamp" ->
            <<"t", "i", "m", "e", "s", "t", "a", "m", "p">>
      [] s = "city" ->
            <<"c", "i", "t", "y">>
      [] s = "state" ->
            <<"s", "t", "a", "t", "e">>
      [] s = "zip" ->
            <<"z", "i", "p">>
      [] s = "category" ->
            <<"c", "a", "t", "e", "g", "o", "r", "y">>

\* needle in hay, for two sequences of characters
Contains(hay, needle) ==
    \E i \in 1 .. (Len(hay) - Len(needle) + 1) :
        SubSeq(hay, i, i + Len(needle) - 1) = needle

\* the terms the code looks for in a column name (lines 82, 287-291, 298)
Terms == {"id", "unique", "date", "timestamp", "city", "state", "zip", "category"}

\* the <<column name, term>> pairs with term in col.lower(), over the column
\* names of the model
NameTerms ==
    {p \in (EXCLUDE_FROM_CATEGORICAL_SCORING
                \cup {"order_status", "payment_value", "payment_type", "price",
                      "product_category_name", "order_item_id", "geolocation_city"})
            \X Terms :
        Contains(Chars(p[1]), Chars(p[2]))}

\* lines 82, 287-291, 298: term in col.lower()
NameContains(col, term) == <<col, term>> \in NameTerms

\* exclusion_reason_of without the test of the exclusion set: the name alone decides
exclusion_reason_of_by_pattern(col) ==
    IF \E term \in {"id", "unique"} : NameContains(col, term)
        THEN "(ID - expected 0%)"
    ELSE IF \E term \in {"date", "timestamp"} : NameContains(col, term)
        THEN "(Date - expected 0%)"
    ELSE IF \E term \in {"city", "state", "zip"} : NameContains(col, term)
        THEN "(Geographic - may be synthetic)"
    ELSE ""

\* lines 286-294: the reason recorded for a column, the first pattern that matches
exclusion_reason_of(col) ==
    IF col \notin EXCLUDE_FROM_CATEGORICAL_SCORING THEN ""
    ELSE IF \E term \in {"id", "unique"} : NameContains(col, term)
        THEN "(ID - expected 0%)"
    ELSE IF \E term \in {"date", "timestamp"} : NameContains(col, term)
        THEN "(Date - expected 0%)"
    ELSE IF \E term \in {"city", "state", "zip"} : NameContains(col, term)
        THEN "(Geographic - may be synthetic)"
    ELSE "(Synthetic by design)"

\* lines 136-144: a label the dictionary maps is replaced, any other cell is kept
TranslateCell(cell, dict) ==
    IF cell # NaN /\ cell[1] \in DOMAIN dict THEN <<dict[cell[1]]>> ELSE cell

\* lines 62-182: the real products table with the labels of its category column
\* translated.  An unreadable translation file leaves the table as it is, as
\* the empty dictionary does.
prepare_products_with_english_categories(real_products, dict) ==
    LET cat == {c \in Columns(real_products) : NameContains(c, "category")}
    IN  [real_products EXCEPT !.cols =
            [c \in Columns(real_products) |->
                IF c \in cat
                THEN [real_products.cols[c] EXCEPT !.cells =
                        [i \in 1 .. Len(@) |-> TranslateCell(@[i], dict)]]
                ELSE real_products.cols[c]]]

\* lines 256-262: the real table the categorical comparator reads
CatRealTable(real, t, dict) ==
    IF t = "products" THEN prepare_products_with_english_categories(real[t], dict)
    ELSE real[t]

\* lines 266-270: the text columns of the real table that the synthetic table has too
CatColumns(real, syn, t, dict) ==
    select_dtypes(CatRealTable(real, t, dict), "object") \cap Columns(syn[t])

\* overlap_percentage_of relative to the categories of either side
overlap_percentage_of_union(real_cells, syn_cells) ==
    LET real_categories      == Distinct(real_cells)
        synthetic_categories == Distinct(syn_cells)
        overlap              == Cardinality(real_categories \cap synthetic_categories)
    IN  Frac(overlap * 100, Cardinality(real_categories \cup synthetic_categories))

\* lines 271-280: |real categories /\ synthetic categories| / |real categories| * 100
overlap_percentage_of(real_cells, syn_cells) ==
    LET real_categories      == Distinct(real_cells)
        synthetic_categories == Distinct(syn_cells)
        overlap              == Cardinality(real_categories \cap synthetic_categories)
        total_real           == Cardinality(real_categories)
    IN  Frac(overlap * 100, total_real)

\* lines 320-327: the entry of one text column
CatColumn(t, col, real_cells, syn_cells) ==
    [overlap_percentage    |-> overlap_percentage_of(real_cells, syn_cells),
     real_categories       |-> Cardinality(Distinct(real_cells)),
     synthetic_categories  |-> Cardinality(Distinct(syn_cells)),
     excluded_from_scoring |-> col \in EXCLUDE_FROM_CATEGORICAL_SCORING,
     exclusion_reason      |-> exclusion_reason_of(col),
     english_comparison    |-> t = "products" /\ NameContains(col, "category")]

\* line 280 divides two Python ints: ZeroDivisionError when a compared column
\* has no real category
CatRaises(real, syn, dict) ==
    \E t \in DOMAIN real \cap DOMAIN syn :
        \E c \in CatColumns(real, syn, t, dict) :
            Distinct(CatRealTable(real, t, dict).cols[c].cells) = {}

CatResults(real, syn, dict) ==
    [t \in DOMAIN real \cap DOMAIN syn |->
        [c \in CatColumns(real, syn, t, dict) |->
            CatColumn(t, c, CatRealTable(real, t, dict).cols[c].cells,
                      syn[t].cols[c].cells)]]

(***************************************************************************)
(* Referential integrity check.                                            *)
(***************************************************************************)
\* lines 341-347: <<parent table, child table, key column>>
relationships ==
    <<  <<"orders", "order_items", "order_id">>,
        <<"orders", "payments", "order_id">>,
        <<"customers", "orders", "customer_id">>,
        <<"products", "order_items", "product_id">>,
        <<"sellers", "order_items", "seller_id">>  >>

Declared == {relationships[i] : i \in DOMAIN relationships}

\* lines 350 and 354: both tables are in the collection and both hold the key column
IsEvaluated(syn, r) ==
    /\ r[1] \in DOMAIN syn
    /\ r[2] \in DOMAIN syn
    /\ r[3] \in Columns(syn[r[1]])
    /\ r[3] \in Columns(syn[r[2]])

\* orphaned_count_of with the difference taken the other way round
orphaned_count_of_parents(parent_df, child_df, key) ==
    LET parent_keys == Distinct(parent_df.cols[key].cells)
        child_keys  == Distinct(child_df.cols[key].cells)
    IN  Cardinality(parent_keys \ child_keys)

\* lines 355-359
orphaned_count_of(parent_df, child_df, key) ==
    LET parent_keys == Distinct(parent_df.cols[key].cells)
        child_keys  == Distinct(child_df.cols[key].cells)
    IN  Cardinality(child_keys \ parent_keys)

\* lines 360-362
integrity_percentage_of(orphaned_count, total_child_records) ==
    Frac((total_child_records - orphaned_count) * 100, total_child_records)

\* lines 373-376: the entry of one relationship
IntegrityEntry(syn, r) ==
    LET orphaned_count == orphaned_count_of(syn[r[1]], syn[r[2]], r[3])
    IN  [orphaned_count       |-> orphaned_count,
         integrity_percentage |->
            integrity_percentage_of(orphaned_count, syn[r[2]].nrows)]

\* line 362 divides two Python ints: ZeroDivisionError when the child table has no row
IntegrityRaises(syn) ==
    \E r \in Declared : IsEvaluated(syn, r) /\ syn[r[2]].nrows = 0

\* the entries are keyed by parent_child, one key for each declared relationship
IntegrityResults(syn) ==
    [r \in {x \in Declared : IsEvaluated(syn, x)} |-> IntegrityEntry(syn, r)]

(***************************************************************************)
(* Business validation.                                                    *)
(***************************************************************************)
\* line 392: pd.to_datetime turns the text column into a datetime column, in
\* place, in the table the synthetic collection holds.  The labels of the
\* model stand for timestamp texts that parse, as those of the data set do; the
\* cell <<v>> of a datetime64 column is the Timestamp parsed from the text v,
\* and a missing cell becomes NaT, missing still.
to_datetime(column) == [column EXCEPT !.dtype = "datetime64"]

\* lines 388-403: the synthetic collection after the order date check
ValidatedData(syn) ==
    IF "orders" \in DOMAIN syn /\ "order_purchase_timestamp" \in Columns(syn["orders"])
    THEN [syn EXCEPT !["orders"].cols["order_purchase_timestamp"] = to_datetime(@)]
    ELSE syn

\* lines 409-424: the payments entry
PaymentsEntry(payments) ==
    LET xs == dropna(payments.cols["payment_value"].cells)
    IN  [negative_count |-> Cardinality({i \in 1 .. Len(xs) : xs[i] < 0}),
         zero_count     |-> Cardinality({i \in 1 .. Len(xs) : xs[i] = 0}),
         avg_value      |-> SeriesMean(payments.cols["payment_value"].cells)]

\* lines 429-446: the products entry, for the category column (the model's
\* products tables hold at most one)
ProductsEntry(products) ==
    LET category_col == CHOOSE c \in Columns(products) : NameContains(c, "category")
        cells        == products.cols[category_col].cells
    IN  [unique_categories |-> Cardinality(Distinct(cells)),
         sample_categories |-> SubSeq(dropna(cells), 1,
                                  IF Len(dropna(cells)) < 10 THEN Len(dropna(cells)) ELSE 10)]

HasPaymentsEntry(syn) ==
    "payments" \in DOMAIN syn /\ "payment_value" \in Columns(syn["payments"])

HasProductsEntry(syn) ==
    /\ "products" \in DOMAIN syn
    /\ \E c \in Columns(syn["products"]) : NameContains(c, "category")

\* lines 385-448
ValidationResults(syn) ==
    [t \in {x \in {"payments", "products"} :
                \/ x = "payments" /\ HasPaymentsEntry(syn)
                \/ x = "products" /\ HasProductsEntry(syn)} |->
        IF t = "payments" THEN PaymentsEntry(syn[t]) ELSE ProductsEntry(syn[t])]

(***************************************************************************)
(* Report.                                                                 *)
(***************************************************************************)
\* the <<table, column>> keys of a result dictionary of dictionaries
EntryKeys(results) ==
    UNION {{<<t, c>> : c \in DOMAIN results[t]} : t \in DOMAIN results}

\* the values f[k], k in keys, as a list (np.mean does not depend on its order)
RECURSIVE ListOver(_, _)
ListOver(keys, f) ==
    IF keys = {} THEN <<>>
    ELSE LET k == CHOOSE x \in keys : TRUE
         IN  <<f[k]>> \o ListOver(keys \ {k}, f)

\* lines 458-462: the similarity scores the numeric dimension averages
stat_scores_of(results) ==
    LET keys == {k \in EntryKeys(results) :
                    FLt(Frac(0, 1), results[k[1]][k[2]].similarity_score)}
    IN  ListOver(keys, [k \in keys |-> results[k[1]][k[2]].similarity_score])

\* meaningful_cat_scores_of without the test of the exclusion flag
all_cat_scores_of(results) ==
    LET keys == EntryKeys(results)
    IN  ListOver(keys, [k \in keys |->
            FMul(results[k[1]][k[2]].overlap_percentage, Frac(1, 100))])

\* lines 469-479: overlap_percentage / 100 of the columns not excluded from scoring
meaningful_cat_scores_of(results) ==
    LET keys == {k \in EntryKeys(results) : ~results[k[1]][k[2]].excluded_from_scoring}
    IN  ListOver(keys, [k \in keys |->
            FMul(results[k[1]][k[2]].overlap_percentage, Frac(1, 100))])

\* line 489: integrity_percentage / 100 of every entry
integrity_scores_of(results) ==
    ListOver(DOMAIN results,
             [r \in DOMAIN results |-> FMul(results[r].integrity_percentage, Frac(1, 100))])

\* lines 464, 481, 490: np.mean(scores) if scores else default
MeanOrDefault(scores, default) == IF scores # <<>> THEN NpMean(scores) ELSE default

\* line 464
avg_stat_score_of(results) == MeanOrDefault(stat_scores_of(results), Frac(1, 2))

\* line 481
avg_cat_score_of(results) == MeanOrDefault(meaningful_cat_scores_of(results), Frac(1, 2))

\* avg_integrity_score_of dividing by the number of declared relationships
avg_integrity_score_of_declared(results) ==
    IF integrity_scores_of(results) # <<>>
    THEN FMul(FSumSeq(integrity_scores_of(results)), Frac(1, Len(relationships)))
    ELSE Frac(1, 1)

\* line 490
avg_integrity_score_of(results) == MeanOrDefault(integrity_scores_of(results), Frac(1, 1))

\* overall_score_of with the numeric dimension counted twice
overall_score_of_weighted(stat, cat, integrity) == NpMean(<<stat, stat, cat, integrity>>)

\* lines 455-495: the mean of the three dimension scores
overall_score_of(stat, cat, integrity) == NpMean(<<stat, cat, integrity>>)

\* tier_of with thresholds open on the lower bound
tier_of_open(score) ==
    IF FLt(Frac(85, 100), score) THEN "EXCELLENT"
    ELSE IF FLt(Frac(75, 100), score) THEN "VERY GOOD"
    ELSE IF FLt(Frac(65, 100), score) THEN "GOOD"
    ELSE IF FLt(Frac(55, 100), score) THEN "FAIR"
    ELSE "POOR"

\* lines 499-508
tier_of(score) ==
    IF FLe(Frac(85, 100), score) THEN "EXCELLENT"
    ELSE IF FLe(Frac(75, 100), score) THEN "VERY GOOD"
    ELSE IF FLe(Frac(65, 100), score) THEN "GOOD"
    ELSE IF FLe(Frac(55, 100), score) THEN "FAIR"
    ELSE "POOR"

\* lines 466-508: the report of the three dimension scores
report_of_scores(stat, cat, integrity) ==
    [avg_stat_score      |-> stat,
     avg_cat_score       |-> cat,
     avg_integrity_score |-> integrity,
     overall_score       |-> overall_score_of(stat, cat, integrity),
     tier                |-> tier_of(overall_score_of(stat, cat, integrity))]

\* authenticity_report_of with the categorical score set to 0 when the
\* validation found a zero payment
authenticity_report_of_penalised(comparison, categorical, integrity, validation) ==
    report_of_scores(avg_stat_score_of(comparison),
                     IF "payments" \in DOMAIN validation
                          /\ validation["payments"].zero_count > 0
                     THEN Frac(0, 1) ELSE avg_cat_score_of(categorical),
                     avg_integrity_score_of(integrity))

\* lines 450-524: what the report computes from its four arguments; the
\* validation results are an argument that no line reads
authenticity_report_of(comparison, categorical, integrity, validation) ==
    report_of_scores(avg_stat_score_of(comparison),
                     avg_cat_score_of(categorical),
                     avg_integrity_score_of(integrity))

(***************************************************************************)
(* The collections load_data can return, within the bounds.  A file that   *)
(* cannot be read leaves its table out of the collection (lines 45-49,     *)
(* 54-58).  Both sides give a column the same dtype.                       *)
(***************************************************************************)
\* the columns of the tables of the data set that the model keeps
Schema(t) ==
    CASE t = "orders"      -> {"order_id", "order_status"}
      [] t = "payments"    -> {"order_id", "payment_value", "payment_type"}
      [] t = "order_items" -> {"order_id", "price"}
      [] t = "products"    -> {"product_category_name"}

\* a table that may be missing: <<>> or <<df>>
Opt(tables) == {<<>>} \cup {<<df>> : df \in tables}

\* the collection of the tables that are there
Collect(o) == [t \in {x \in DOMAIN o : o[x] # <<>>} |-> o[t][1]]

\* a reference row of a real table: every cell holds the value v
RefTable(t, v) == MkTable(1, [c \in Schema(t) |-> <<<<v>>>>])

\* real side of a whole data set: no table could be loaded, or every table
\* holds the reference row of value 0
RealWide == {EmptyDict, [t \in {"orders", "payments", "order_items"} |-> RefTable(t, 0)]}

\* synthetic side of a whole data set: each table missing, or any table of at most one row
SynWide ==
    {Collect(o) : o \in [orders      : Opt(TablesOver(Schema("orders"), {0, 1})),
                         payments    : Opt(TablesOver(Schema("payments"), {0, 1})),
                         order_items : Opt(TablesOver(Schema("order_items"), {0, 1}))]}

\* one column of up to MaxRows rows, in table t on both sides
OneColumn(t, col) ==
    {<<OneTable(t, r), OneTable(t, s)>> :
        r \in TablesOver({col}, 0 .. MaxRows), s \in TablesOver({col}, 0 .. MaxRows)}

\* a parent and a child key column of up to MaxRows rows; the child table may
\* be missing, or hold no key column; the real side is a reference orders table
KeyColumns ==
    {<<OneTable("orders", RefTable("orders", 0)),
       Collect([orders |-> <<p>>, payments |-> c])>> :
        p \in TablesOver({"order_id"}, 0 .. MaxRows),
        c \in Opt(TablesOver({"order_id"}, 0 .. MaxRows)
                    \cup TablesOver({"payment_type"}, {0, 1}))}

\* the names a text column can have: those of the exclusion set, and others,
\* with and without a pattern of lines 287-291 in them
ColumnNames ==
    EXCLUDE_FROM_CATEGORICAL_SCORING
        \cup {"order_status", "payment_type", "product_category_name",
              "order_item_id", "geolocation_city"}

\* one text column of any name and one row, in the same table on both sides
NamedColumn ==
    UNION {{<<OneTable(t, r), OneTable(t, s)>> :
                r \in TablesOver({col}, {1}), s \in TablesOver({col}, {1})} :
           t \in {"orders", "products"}, col \in ColumnNames}

\* <<real collection, synthetic collection>>
Loadable ==
    (RealWide \X SynWide)
        \cup OneColumn("payments", "payment_value")
        \cup OneColumn("orders", "order_status")
        \cup OneColumn("products", "product_category_name")
        \cup KeyColumns
        \cup NamedColumn

\* product_category_name_translation.csv as the dictionary of line 118: it
\* maps at most one label, to another label (no file, or an unusable one, acts
\* as the empty one)
Dictionaries == {EmptyDict} \cup UNION {[{v} -> Vals \ {v}] : v \in Vals}

(***************************************************************************)
(* The run of main().                                                      *)
(***************************************************************************)
NoScore == [k |-> "none"]

Init ==
    /\ pc = "start"
    /\ error = ""
    /\ real_data = EmptyDict
    /\ synthetic_data = EmptyDict
    /\ translation_dict = EmptyDict
    /\ comparison_results = EmptyDict
    /\ categorical_results = EmptyDict
    /\ integrity_results = EmptyDict
    /\ validation_results = EmptyDict
    /\ avg_stat_score = NoScore
    /\ avg_cat_score = NoScore
    /\ avg_integrity_score = NoScore
    /\ overall_score = NoScore
    /\ tier = ""

\* lines 27-60 and 533-537: load both collections; main stops when one is empty
load_data ==
    /\ pc = "start"
    /\ \E d \in Loadable :
        /\ real_data' = d[1]
        /\ synthetic_data' = d[2]
        /\ translation_dict' \in
              IF "products" \in DOMAIN d[1] \cap DOMAIN d[2]
              THEN Dictionaries ELSE {EmptyDict}
        /\ pc' = IF d[1] = EmptyDict \/ d[2] = EmptyDict THEN "aborted" ELSE "stat"
    /\ UNCHANGED <<error, comparison_results, categorical_results, integrity_results,
                   validation_results, avg_stat_score, avg_cat_score,
                   avg_integrity_score, overall_score, tier>>

\* lines 184-245 (line 540)
statistical_comparison ==
    /\ pc = "stat"
    /\ comparison_results' = StatResults(real_data, synthetic_data)
    /\ pc' = "cat"
    /\ UNCHANGED <<error, real_data, synthetic_data, translation_dict,
                   categorical_results, integrity_results, validation_results,
                   avg_stat_score, avg_cat_score, avg_integrity_score,
                   overall_score, tier>>

\* lines 247-331 (line 541): the exception of line 280 leaves main
categorical_comparison ==
    /\ pc = "cat"
    /\ IF CatRaises(real_data, synthetic_data, translation_dict)
       THEN /\ pc' = "crashed"
            /\ error' = "ZeroDivisionError at line 280"
            /\ UNCHANGED categorical_results
       ELSE /\ pc' = "integrity"
            /\ categorical_results' = CatResults(real_data, synthetic_data, translation_dict)
            /\ UNCHANGED error
    /\ UNCHANGED <<real_data, synthetic_data, translation_dict, comparison_results,
                   integrity_results, validation_results, avg_stat_score,
                   avg_cat_score, avg_integrity_score, overall_score, tier>>

\* lines 333-378 (line 542): the exception of line 362 leaves main
referential_integrity_check ==
    /\ pc = "integrity"
    /\ IF IntegrityRaises(synthetic_data)
       THEN /\ pc' = "crashed"
            /\ error' = "ZeroDivisionError at line 362"
            /\ UNCHANGED integrity_results
       ELSE /\ pc' = "validation"
            /\ integrity_results' = IntegrityResults(synthetic_data)
            /\ UNCHANGED error
    /\ UNCHANGED <<real_data, synthetic_data, translation_dict, comparison_results,
                   categorical_results, validation_results, avg_stat_score,
                   avg_cat_score, avg_integrity_score, overall_score, tier>>

\* lines 380-448 (line 543)
business_logic_validation ==
    /\ pc = "validation"
    /\ synthetic_data' = ValidatedData(synthetic_data)
    /\ validation_results' = ValidationResults(synthetic_data)
    /\ pc' = "report"
    /\ UNCHANGED <<error, real_data, translation_dict, comparison_results,
                   categorical_results, integrity_results, avg_stat_score,
                   avg_cat_score, avg_integrity_score, overall_score, tier>>

\* lines 450-524 (lines 546-549)
generate_authenticity_report ==
    /\ pc = "report"
    /\ \E report \in {authenticity_report_of(comparison_results, categorical_results,
                                                 integrity_results, validation_results)} :
           /\ avg_stat_score' = report.avg_stat_score
           /\ avg_cat_score' = report.avg_cat_score
           /\ avg_integrity_score' = report.avg_integrity_score
           /\ overall_score' = report.overall_score
           /\ tier' = report.tier
    /\ pc' = "done"
    /\ UNCHANGED <<error, real_data, synthetic_data, translation_dict,
                   comparison_results, categorical_results, integrity_results,
                   validation_results>>

Next ==
    \/ load_data
    \/ statistical_comparison
    \/ categorical_comparison
    \/ referential_integrity_check
    \/ business_logic_validation
    \/ generate_authenticity_report

Spec == Init /\ [][Next]_vars

(***************************************************************************)
(* The interpretation of an overall score (lines 498-508) on its own: the  *)
(* scores 0, 0.01, ..., MaxScore / 100.                                    *)
(***************************************************************************)
MaxScore == 100

Scores == {Frac(k, 100) : k \in 0 .. MaxScore}

TierInit ==
    /\ pc = "interpret"
    /\ error = ""
    /\ real_data = EmptyDict
    /\ synthetic_data = EmptyDict
    /\ translation_dict = EmptyDict
    /\ comparison_results = EmptyDict
    /\ categorical_results = EmptyDict
    /\ integrity_results = EmptyDict
    /\ validation_results = EmptyDict
    /\ avg_stat_score = NoScore
    /\ avg_cat_score = NoScore
    /\ avg_integrity_score = NoScore
    /\ overall_score \in Scores
    /\ tier = ""

\* lines 498-508
interpret_score ==
    /\ pc = "interpret"
    /\ tier' = tier_of(overall_score)
    /\ pc' = "interpreted"
    /\ UNCHANGED <<error, real_data, synthetic_data, translation_dict,
                   comparison_results, categorical_results, integrity_results,
                   validation_results, avg_stat_score, avg_cat_score,
                   avg_integrity_score, overall_score>>

TierNext == interpret_score

TierSpec == TierInit /\ [][TierNext]_vars

(***************************************************************************)
(* Where the run is.                                                       *)
(***************************************************************************)
StatHasRun == pc \in {"cat", "integrity", "validation", "report", "done", "crashed"}

CatHasRun ==
    \/ pc \in {"integrity", "validation", "report", "done"}
    \/ pc = "crashed"

CatHasReturned ==
    \/ pc \in {"integrity", "validation", "report", "done"}
    \/ pc = "crashed" /\ error = "ZeroDivisionError at line 362"

IntegrityHasRun ==
    \/ pc \in {"validation", "report", "done"}
    \/ pc = "crashed" /\ error = "ZeroDivisionError at line 362"

IntegrityHasReturned == pc \in {"validation", "report", "done"}

InUnit(x) == IsNum(x) /\ 0 <= x.n /\ x.n <= x.d

\* the sum of f[k] over keys
FSumOver(keys, f) == FSumSeq(ListOver(keys, f))

(***************************************************************************)
(* C1                                                                      *)
(***************************************************************************)
\* C1: in every run that produces a report, the overall score is the
\* unweighted mean of the numeric, categorical and referential dimension
\* scores, each of the three lies in [0,1], and so does the overall score.
C1_OverallIsMeanOfThree ==
    pc = "done" =>
        /\ InUnit(avg_stat_score)
        /\ InUnit(avg_cat_score)
        /\ InUnit(avg_integrity_score)
        /\ InUnit(overall_score)
        /\ 3 * overall_score.n * avg_stat_score.d * avg_cat_score.d * avg_integrity_score.d
             = overall_score.d *
                 ( avg_stat_score.n * avg_cat_score.d * avg_integrity_score.d
                 + avg_cat_score.n * avg_stat_score.d * avg_integrity_score.d
                 + avg_integrity_score.n * avg_stat_score.d * avg_cat_score.d )

\* a report over three different dimension scores
C1_Witness ==
    /\ pc = "done"
    /\ avg_stat_score # avg_cat_score
    /\ avg_cat_score # avg_integrity_score
    /\ avg_stat_score # avg_integrity_score
    /\ overall_score \notin {avg_stat_score, avg_cat_score, avg_integrity_score}

(***************************************************************************)
(* C2                                                                      *)
(***************************************************************************)
\* C2: the numeric dimension score is the mean of all the similarity scores
\* the numeric comparator emitted, a score of exactly 0 included, and 0.5
\* when it emitted none.
C2_NumericScoreAveragesAllEmitted ==
    pc = "done" =>
        LET keys == EntryKeys(comparison_results)
            all  == [k \in keys |-> comparison_results[k[1]][k[2]].similarity_score]
        IN  IF keys = {} THEN avg_stat_score = Frac(1, 2)
            ELSE FMul(avg_stat_score, Frac(Cardinality(keys), 1)) = FSumOver(keys, all)

(***************************************************************************)
(* C3                                                                      *)
(***************************************************************************)
\* C3: every compared text column has an entry, flagged excluded exactly
\* when its name is in the exclusion set; in a run that produces a report the
\* categorical dimension score is the mean of overlap_percentage / 100 over
\* the entries whose flag is false, and 0.5 when there is none.
C3_CategoricalScoreSkipsExcluded ==
    /\ CatHasReturned =>
          \A t \in DOMAIN real_data \cap DOMAIN synthetic_data :
              \A c \in Columns(real_data[t]) \cap Columns(synthetic_data[t]) :
                  real_data[t].cols[c].dtype = "object" =>
                      /\ c \in DOMAIN categorical_results[t]
                      /\ categorical_results[t][c].excluded_from_scoring
                            <=> c \in EXCLUDE_FROM_CATEGORICAL_SCORING
    /\ pc = "done" =>
          LET scored == {k \in EntryKeys(categorical_results) :
                            ~categorical_results[k[1]][k[2]].excluded_from_scoring}
              pct    == [k \in scored |-> categorical_results[k[1]][k[2]].overlap_percentage]
          IN  IF scored = {} THEN avg_cat_score = Frac(1, 2)
              ELSE FMul(avg_cat_score, Frac(100 * Cardinality(scored), 1))
                      = FSumOver(scored, pct)

\* a report over two scored columns of different overlap and an excluded
\* column whose overlap is not the score
C3_Witness ==
    /\ pc = "done"
    /\ \E k1, k2, k3 \in EntryKeys(categorical_results) :
          /\ ~categorical_results[k1[1]][k1[2]].excluded_from_scoring
          /\ ~categorical_results[k2[1]][k2[2]].excluded_from_scoring
          /\ categorical_results[k1[1]][k1[2]].overlap_percentage
                # categorical_results[k2[1]][k2[2]].overlap_percentage
          /\ categorical_results[k3[1]][k3[2]].excluded_from_scoring
          /\ categorical_results[k3[1]][k3[2]].overlap_percentage
                # FMul(avg_cat_score, Frac(100, 1))

(***************************************************************************)
(* C4                                                                      *)
(***************************************************************************)
\* the declared relationships whose two tables are in the synthetic
\* collection and hold the key column
PresentRelationships ==
    {r \in Declared :
        /\ {r[1], r[2]} \subseteq DOMAIN synthetic_data
        /\ r[3] \in DOMAIN synthetic_data[r[1]].cols
        /\ r[3] \in DOMAIN synthetic_data[r[2]].cols}

KeyValues(t, col) ==
    LET cells == synthetic_data[t].cols[col].cells
    IN  {v \in Vals : \E i \in 1 .. Len(cells) : cells[i] = <<v>>}

\* C5: an evaluated relationship (its child table then has a row) reports as
\* orphan count the number of distinct non-null child keys that are no parent
\* key, and as integrity percentage (total - orphans) / total * 100 with
\* total the number of child rows; the percentage is 100 when every child
\* key is a parent key, under 100 and at least 0 when there is an orphan;
\* parent keys no child refers to do not enter it.
C5_IntegrityPercentage ==
    IntegrityHasReturned =>
        \A r \in DOMAIN integrity_results :
            LET orphans == KeyValues(r[2], r[3]) \ KeyValues(r[1], r[3])
                total   == synthetic_data[r[2]].nrows
                e       == integrity_results[r]
            IN  /\ total > 0
                /\ e.orphaned_count = Cardinality(orphans)
                /\ IsNum(e.integrity_percentage)
                /\ e.integrity_percentage.n * total
                      = (total - Cardinality(orphans)) * 100 * e.integrity_percentage.d
                /\ orphans = {} => e.integrity_percentage = Frac(100, 1)
                /\ orphans # {} =>
                      /\ FLt(e.integrity_percentage, Frac(100, 1))
                      /\ FLe(Frac(0, 1), e.integrity_percentage)

\* an entry with an orphan, over a child table with a null key and a parent
\* table with a key no child refers to
C5_Witness ==
    /\ IntegrityHasReturned
    /\ \E r \in DOMAIN integrity_results :
          /\ integrity_results[r].orphaned_count = 1
          /\ FLt(Frac(0, 1), integrity_results[r].integrity_percentage)
          /\ NaN \in {synthetic_data[r[2]].cols[r[3]].cells[i] :
                        i \in 1 .. synthetic_data[r[2]].nrows}
          /\ KeyValues(r[1], r[3]) \ KeyValues(r[2], r[3]) # {}

\* C6: once the check has run over a present relationship whose child table
\* has no row, that relationship has an entry whose integrity percentage is
\* 100, and the check has not failed.
C6_EmptyChildIsFullIntegrity ==
    IntegrityHasRun =>
        \A r \in PresentRelationships :
            synthetic_data[r[2]].nrows = 0 =>
                /\ pc # "crashed"
                /\ r \in DOMAIN integrity_results
                /\ integrity_results[r].integrity_percentage = Frac(100, 1)

(***************************************************************************)
(* C7, C8                                                                  *)
(***************************************************************************)
\* the real category set of column c of table t: the distinct non-null
\* values, the labels of the products category column as the dictionary
\* translates them
RealCategories(t, c) ==
    LET cells == real_data[t].cols[c].cells
        raw   == {v \in Vals : \E i \in 1 .. Len(cells) : cells[i] = <<v>>}
    IN  IF t = "products" /\ c = "product_category_name"
        THEN {IF v \in DOMAIN translation_dict THEN translation_dict[v] ELSE v : v \in raw}
        ELSE raw

SyntheticCategories(t, c) ==
    LET cells == synthetic_data[t].cols[c].cells
    IN  {v \in Vals : \E i \in 1 .. Len(cells) : cells[i] = <<v>>}

\* the text columns the categorical comparator compares
ComparedTextColumns ==
    UNION {{<<t, c>> : c \in {x \in Columns(real_data[t]) \cap Columns(synthetic_data[t]) :
                                real_data[t].cols[x].dtype = "object"}} :
            t \in DOMAIN real_data \cap DOMAIN synthetic_data}

\* C7: every entry of the categorical comparator (the real category set R of
\* its column is then not empty) reports overlap_percentage = |R /\ S| / |R| * 100
\* with S the synthetic category set; it lies in [0,100], is 100 when S
\* contains R and 0 when R and S are disjoint.
C7_OverlapPercentage ==
    CatHasReturned =>
        \A k \in EntryKeys(categorical_results) :
            LET R == RealCategories(k[1], k[2])
                S == SyntheticCategories(k[1], k[2])
                p == categorical_results[k[1]][k[2]].overlap_percentage
            IN  /\ R # {}
                /\ IsNum(p)
                /\ p.n * Cardinality(R) = Cardinality(R \cap S) * 100 * p.d
                /\ FLe(Frac(0, 1), p) /\ FLe(p, Frac(100, 1))
                /\ R \subseteq S => p = Frac(100, 1)
                /\ R \cap S = {} => p = Frac(0, 1)

\* an entry whose synthetic categories hold some real categories, not all,
\* and a category that is not real
C7_Witness ==
    /\ CatHasReturned
    /\ \E k \in EntryKeys(categorical_results) :
          /\ RealCategories(k[1], k[2]) \cap SyntheticCategories(k[1], k[2]) # {}
          /\ RealCategories(k[1], k[2]) \ SyntheticCategories(k[1], k[2]) # {}
          /\ categorical_results[k[1]][k[2]].overlap_percentage = Frac(50, 1)

\* C8: once the categorical comparator has run over a compared text column
\* whose real category set is empty, that column has an entry with
\* overlap_percentage = 0, and the comparator has not failed.
C8_EmptyRealSetIsZeroOverlap ==
    CatHasRun =>
        \A k \in ComparedTextColumns :
            RealCategories(k[1], k[2]) = {} =>
                /\ error # "ZeroDivisionError at line 280"
                /\ k[1] \in DOMAIN categorical_results
                /\ k[2] \in DOMAIN categorical_results[k[1]]
                /\ categorical_results[k[1]][k[2]].overlap_percentage = Frac(0, 1)

(***************************************************************************)
(* C9, C10                                                                 *)
(***************************************************************************)
\* the number of non-null cells, and of non-null cells with a value <= x
NonNull(cells) == Cardinality({i \in 1 .. Len(cells) : cells[i] # NaN})

AtMost(cells, x) ==
    Cardinality({i \in 1 .. Len(cells) : cells[i] # NaN /\ cells[i][1] <= x})

\* the sum of the non-null cells
RECURSIVE CellSum(_)
CellSum(cells) ==
    IF cells = <<>> THEN 0
    ELSE (IF Head(cells) = NaN THEN 0 ELSE Head(cells)[1]) + CellSum(Tail(cells))

\* C9: for every numeric column with a non-null value on each side, the
\* similarity score is 1 minus the largest absolute difference of the two
\* empirical distribution functions, lies in [0,1], and is 1 when the two
\* samples are the same; the same samples with a non-zero mean have a mean
\* difference of 0.
C9_SimilarityScore ==
    StatHasRun =>
        \A k \in EntryKeys(comparison_results) :
            LET rc == real_data[k[1]].cols[k[2]].cells
                sc == synthetic_data[k[1]].cols[k[2]].cells
                e  == comparison_results[k[1]][k[2]]
                s  == e.similarity_score
                \* |F_real(x) - F_synthetic(x)| * NonNull(rc) * NonNull(sc)
                gap(x) == Abs(AtMost(rc, x) * NonNull(sc) - AtMost(sc, x) * NonNull(rc))
            IN  (NonNull(rc) > 0 /\ NonNull(sc) > 0) =>
                    /\ InUnit(s)
                    /\ \A x \in Vals :
                          gap(x) * s.d <= (s.d - s.n) * NonNull(rc) * NonNull(sc)
                    /\ \E x \in Vals :
                          gap(x) * s.d = (s.d - s.n) * NonNull(rc) * NonNull(sc)
                    /\ rc = sc => s = Frac(1, 1)
                    /\ (rc = sc /\ CellSum(rc) # 0) => e.mean_diff = Frac(0, 1)

\* a column whose two samples differ, with a score strictly between 0 and 1
C9_Witness ==
    /\ StatHasRun
    /\ \E k \in EntryKeys(comparison_results) :
          /\ NonNull(real_data[k[1]].cols[k[2]].cells) > 1
          /\ NonNull(synthetic_data[k[1]].cols[k[2]].cells) > 1
          /\ comparison_results[k[1]][k[2]].similarity_score = Frac(1, 2)

\* the finite value 0 of a relative difference
IsZero(x) ==
    \/ x = Frac(0, 1)
    \/ x.k = "relsqrt" /\ x.q = Frac(1, 1)

\* the non-null values of the cells are all the same (their standard deviation is 0)
AllSame(cells) ==
    \A i, j \in 1 .. Len(cells) : (cells[i] # NaN /\ cells[j] # NaN) => cells[i] = cells[j]

\* C10: the numeric comparator reports a mean difference of 0 when the real
\* mean is exactly zero, and a std difference of 0 when the real std is
\* exactly zero.
C10_ZeroBaselineGivesZeroDifference ==
    StatHasRun =>
        \A k \in EntryKeys(comparison_results) :
            LET rc == real_data[k[1]].cols[k[2]].cells
                e  == comparison_results[k[1]][k[2]]
            IN  /\ (NonNull(rc) > 0 /\ CellSum(rc) = 0) => IsZero(e.mean_diff)
                /\ (NonNull(rc) > 1 /\ AllSame(rc)) => IsZero(e.std_diff)

(***************************************************************************)
(* C11                                                                     *)
(***************************************************************************)
\* the <<table, column>> pairs of the numeric columns of a real table that the
\* synthetic table of the same name has too
ComparedNumericColumns ==
    UNION {{<<t, c>> : c \in {x \in Columns(real_data[t]) :
                                 /\ real_data[t].cols[x].dtype = "number"
                                 /\ x \in Columns(synthetic_data[t])}} :
           t \in DOMAIN real_data \cap DOMAIN synthetic_data}

\* no non-null value on the real or on the synthetic side
EmptySide(k) ==
    \/ NonNull(real_data[k[1]].cols[k[2]].cells) = 0
    \/ NonNull(synthetic_data[k[1]].cols[k[2]].cells) = 0

\* C11: once the numeric comparator has run, a numeric column present in both
\* tables that has no non-null value on either side has no entry in the
\* comparison results (it was skipped).
C11_EmptySideColumnIsSkipped ==
    StatHasRun =>
        \A k \in ComparedNumericColumns :
            EmptySide(k) =>
                ~(k[1] \in DOMAIN comparison_results
                    /\ k[2] \in DOMAIN comparison_results[k[1]])

(***************************************************************************)
(* C12                                                                     *)
(***************************************************************************)
\* the collections have been loaded
Loaded == pc # "start"

\* the run has ended and has produced no report
EndedWithoutReport == pc \in {"aborted", "crashed"}

\* C12: a run ends without a report exactly when the real or the synthetic
\* collection is empty; with both collections non-empty no component fails,
\* whatever the tables hold, so no exception leaves the run.
C12_OnlyEmptyCollectionStopsRun ==
    Loaded =>
        /\ (real_data = EmptyDict \/ synthetic_data = EmptyDict) => pc = "aborted"
        /\ EndedWithoutReport =>
              /\ real_data = EmptyDict \/ synthetic_data = EmptyDict
              /\ error = ""

(***************************************************************************)
(* C13                                                                     *)
(***************************************************************************)
\* the overall score is at least k / 100
AtLeast(k) == k * overall_score.d <= 100 * overall_score.n

\* C13: an interpreted score has exactly one tier, fixed by the thresholds
\* closed on the lower bound: >= 0.85 excellent, [0.75, 0.85) very good,
\* [0.65, 0.75) good, [0.55, 0.65) fair, < 0.55 poor.
C13_TierThresholds ==
    pc \in {"interpreted", "done"} =>
        /\ tier \in {"EXCELLENT", "VERY GOOD", "GOOD", "FAIR", "POOR"}
        /\ tier = "EXCELLENT" <=> AtLeast(85)
        /\ tier = "VERY GOOD" <=> (AtLeast(75) /\ ~AtLeast(85))
        /\ tier = "GOOD"      <=> (AtLeast(65) /\ ~AtLeast(75))
        /\ tier = "FAIR"      <=> (AtLeast(55) /\ ~AtLeast(65))
        /\ tier = "POOR"      <=> ~AtLeast(55)

\* a score exactly on a threshold gets the higher tier
C13_Witness ==
    /\ pc = "interpreted"
    /\ overall_score = Frac(65, 100)
    /\ tier = "GOOD"

(***************************************************************************)
(* C14                                                                     *)
(***************************************************************************)
\* the members of the exclusion set by the reason they are expected to get
IdentifierNames ==
    {"order_id", "customer_id", "product_id", "seller_id", "review_id",
     "customer_unique_id"}

TemporalNames ==
    {"order_purchase_timestamp", "order_delivered_carrier_date",
     "order_delivered_customer_date", "order_estimated_delivery_date",
     "shipping_limit_date", "review_creation_date", "review_answer_timestamp"}

GeographicNames ==
    {"customer_city", "customer_state", "seller_city", "seller_state",
     "seller_zip_code_prefix", "customer_zip_code_prefix",
     "geolocation_zip_code_prefix"}

\* the name holds one of the terms
Matches(col, terms) == \E term \in terms : <<col, term>> \in NameTerms

\* C14: every recorded text column is excluded from scoring exactly when its
\* name is in the exclusion set, whatever patterns the name holds; an
\* excluded column has one reason, the first that matches of identifier,
\* temporal, geographic, else synthetic by design; a column that is not
\* excluded has the empty reason; the same column name gets the same role and
\* reason wherever it is classified.
C14_ColumnClassification ==
    CatHasReturned =>
        \A k \in EntryKeys(categorical_results) :
            LET col == k[2]
                e   == categorical_results[k[1]][col]
                r   == e.exclusion_reason
            IN  /\ e.excluded_from_scoring <=> col \in EXCLUDE_FROM_CATEGORICAL_SCORING
                /\ ~e.excluded_from_scoring => r = ""
                /\ e.excluded_from_scoring =>
                      /\ r \in {"(ID - expected 0%)", "(Date - expected 0%)",
                                "(Geographic - may be synthetic)", "(Synthetic by design)"}
                      /\ r = "(ID - expected 0%)" <=> Matches(col, {"id", "unique"})
                      /\ r = "(Date - expected 0%)" <=>
                            /\ ~Matches(col, {"id", "unique"})
                            /\ Matches(col, {"date", "timestamp"})
                      /\ r = "(Geographic - may be synthetic)" <=>
                            /\ ~Matches(col, {"id", "unique", "date", "timestamp"})
                            /\ Matches(col, {"city", "state", "zip"})
                      /\ r = "(ID - expected 0%)" <=> col \in IdentifierNames
                      /\ r = "(Date - expected 0%)" <=> col \in TemporalNames
                      /\ r = "(Geographic - may be synthetic)" <=> col \in GeographicNames
                /\ \A k2 \in EntryKeys(categorical_results) :
                      k2[2] = col =>
                          /\ categorical_results[k2[1]][col].excluded_from_scoring
                                = e.excluded_from_scoring
                          /\ categorical_results[k2[1]][col].exclusion_reason = r

\* a column whose name holds the identifier pattern and is not in the
\* exclusion set has been classified: it is scored and has no reason
C14_Witness ==
    /\ CatHasReturned
    /\ "orders" \in DOMAIN categorical_results
    /\ "order_item_id" \in DOMAIN categorical_results["orders"]
    /\ ~categorical_results["orders"]["order_item_id"].excluded_from_scoring
    /\ categorical_results["orders"]["order_item_id"].exclusion_reason = ""

(***************************************************************************)
(* C15                                                                     *)
(***************************************************************************)
\* C15: once the collections are loaded, no component changes a table or a
\* column of the real or of the synthetic collection: each step of the
\* numeric comparator, the categorical comparator, the referential integrity
\* check and the business validation leaves both as they were.
C15_InputsAreImmutable ==
    [][Loaded => (real_data' = real_data /\ synthetic_data' = synthetic_data)]_vars

(***************************************************************************)
(* C16                                                                     *)
(***************************************************************************)
\* validation results of other runs: of synthetic collections holding a
\* payment of 0, a payment of 1, or a product
RunValidations ==
    {ValidationResults(syn) :
        syn \in {OneTable("payments", MkTable(1, [c \in {"payment_value"} |-> <<<<0>>>>])),
                 OneTable("payments", MkTable(1, [c \in {"payment_value"} |-> <<<<1>>>>])),
                 OneTable("products",
                          MkTable(1, [c \in {"product_category_name"} |-> <<<<0>>>>]))}}

\* C16: in a run that has produced its report, the three dimension scores,
\* the overall score and the tier are those the report gives for the run's
\* numeric, categorical and referential results with the validation results
\* of any other run in place of its own: two runs that differ in their
\* validation results only have the same scores and tier.
C16_ValidationIsDiagnosticOnly ==
    pc = "done" =>
        \A validation \in RunValidations :
            authenticity_report_of(comparison_results, categorical_results,
                                   integrity_results, validation)
                = [avg_stat_score      |-> avg_stat_score,
                   avg_cat_score       |-> avg_cat_score,
                   avg_integrity_score |-> avg_integrity_score,
                   overall_score       |-> overall_score,
                   tier                |-> tier]

\* a report of a run whose validation counted a zero payment, where that of
\* another run counted none
C16_Witness ==
    /\ pc = "done"
    /\ "payments" \in DOMAIN validation_results
    /\ validation_results["payments"].zero_count > 0
    /\ \E validation \in RunValidations :
          /\ "payments" \in DOMAIN validation
          /\ validation["payments"].zero_count = 0
    /\ overall_score # NoScore

====
